---- MODULE Spec2Model ----
(***************************************************************************)
(* Model of the SASL layer of the proton-c transport                       *)
(* (proton-c/src/sasl/sasl.c): the SASL state machine last_state /         *)
(* desired_state, the frame-posting drain, the received-frame handlers,    *)
(* and the four SASL io layers that rewrite their own slot.                *)
(*                                                                         *)
(* The pn_transport_t is one record, `transport`, whose field `sasl` is    *)
(* the pni_sasl_t.  Every C function is an operator from a transport       *)
(* record to a transport record (input/output processors return the pair   *)
(* of the new record and the ssize_t result).  Strings are tuples of       *)
(* one-character strings.                                                  *)
(***************************************************************************)
EXTENDS Integers, Sequences, FiniteSets, TLC

VARIABLES transport, inbuf, op, driver, encoder

vars == <<transport, inbuf, op, driver, encoder>>

(***************************************************************************)
(* Bounds of the model.                                                    *)
(***************************************************************************)
\* posted frames that may be left pending in the transport's output after a
\* call of the output processor
MaxAvailable == 1
\* units of peer input that may be pending, unread, at one time
MaxInBuf == 1

(***************************************************************************)
(* enum pni_sasl_state (sasl-internal.h).  sasl.c compares states with <   *)
(* and >.  Between two states of one role the order is fixed by the rewind *)
(* targets and the drain's prerequisites: NONE < INIT < RESPONSE <         *)
(* PRETEND_OUTCOME < RECVED_OUTCOME and NONE < MECHANISMS < CHALLENGE <    *)
(* POSTED_OUTCOME.  A comparison across roles is made only by              *)
(* pni_sasl_set_desired_state on a request of the other role, which it     *)
(* rejects by one test or the other.                                       *)
(***************************************************************************)
SASL_NONE == 0
SASL_POSTED_INIT == 1
SASL_POSTED_RESPONSE == 2
SASL_POSTED_MECHANISMS == 3
SASL_POSTED_CHALLENGE == 4
SASL_POSTED_OUTCOME == 5
SASL_PRETEND_OUTCOME == 6
SASL_RECVED_OUTCOME == 7

States == SASL_NONE..SASL_RECVED_OUTCOME

\* pn_sasl_outcome_t (proton/sasl.h)
PN_SASL_NONE == -1
PN_SASL_OK == 0
PN_SASL_AUTH == 1
PN_SASL_SYS == 2
PN_SASL_PERM == 3
PN_SASL_TEMP == 4

\* proton/error.h
PN_EOS == -1

SASL_HEADER_LEN == 8

\* the values of transport->io_layers[layer] for the SASL slot
sasl_header_layer == "sasl_header_layer"
sasl_write_header_layer == "sasl_write_header_layer"
sasl_read_header_layer == "sasl_read_header_layer"
sasl_layer == "sasl_layer"
pni_passthru_layer == "pni_passthru_layer"
pni_error_layer == "pni_error_layer"

\* a char* field is NULL or points to a string
NULL == <<>>
StrPtr(str) == <<str>>
\* no condition is set on the transport
Unset == "unset"
\* pn_post_frame has not been handed a SASL_MECHANISMS frame
NoFrame == [posted |-> FALSE]

(***************************************************************************)
(* Strings.                                                                *)
(***************************************************************************)
ANONYMOUS == <<"A", "N", "O", "N", "Y", "M", "O", "U", "S">>
PLAIN == <<"P", "L", "A", "I", "N">>
GSSAPI == <<"G", "S", "S", "A", "P", "I">>

UpperCase == <<"A", "B", "C", "D", "E", "F", "G", "H", "I", "J", "K", "L", "M",
               "N", "O", "P", "Q", "R", "S", "T", "U", "V", "W", "X", "Y", "Z">>
LowerCase == <<"a", "b", "c", "d", "e", "f", "g", "h", "i", "j", "k", "l", "m",
               "n", "o", "p", "q", "r", "s", "t", "u", "v", "w", "x", "y", "z">>

\* tolower() of one character
ToLower(ch) ==
  IF \E i \in 1..Len(UpperCase) : UpperCase[i] = ch
  THEN LowerCase[CHOOSE i \in 1..Len(UpperCase) : UpperCase[i] = ch]
  ELSE ch

\* pn_strncasecmp(a + off, s, len) == 0, given that a has len characters from off
pn_strncasecmp_eq(a, off, s, len) ==
  \A i \in 1..len : ToLower(a[off + i - 1]) = ToLower(s[i])

\* 1-based index of the first ' ' of list at or after position c, 0 if none
strchr_space(list, c) ==
  IF \E i \in c..Len(list) : list[i] = " "
  THEN CHOOSE i \in c..Len(list) : list[i] = " " /\ \A j \in c..(i - 1) : list[j] # " "
  ELSE 0

\* the while loop of pni_included_mech, c the 1-based position of the cursor
RECURSIVE included_from(_, _, _)
included_from(list, s, c) ==
  LET len == Len(s)
      end_list == Len(list) + 1
  IN IF len > end_list - c THEN FALSE
     ELSE IF pn_strncasecmp_eq(list, c, s, len)
             /\ (c + len = end_list \/ list[c + len] = " ") THEN TRUE
     ELSE LET sp == strchr_space(list, c)
          IN IF sp = 0 THEN FALSE ELSE included_from(list, s, sp + 1)

\* included_mech_list is a pointer: NULL, or StrPtr(str) with str = list[1]
pni_included_mech(included_mech_list, s) ==
  IF included_mech_list = NULL THEN TRUE
  ELSE included_from(included_mech_list[1], s, 1)

(***************************************************************************)
(* The state machine.                                                      *)
(***************************************************************************)
pni_sasl_is_server_state(state) ==
  \/ state = SASL_NONE
  \/ state = SASL_POSTED_MECHANISMS
  \/ state = SASL_POSTED_CHALLENGE
  \/ state = SASL_POSTED_OUTCOME

pni_sasl_is_client_state(state) ==
  \/ state = SASL_NONE
  \/ state = SASL_POSTED_INIT
  \/ state = SASL_POSTED_RESPONSE
  \/ state = SASL_PRETEND_OUTCOME
  \/ state = SASL_RECVED_OUTCOME

pni_sasl_is_final_input_state(sasl) ==
  \/ sasl.last_state = SASL_RECVED_OUTCOME
  \/ sasl.desired_state = SASL_POSTED_OUTCOME

pni_sasl_is_final_output_state(sasl) ==
  \/ sasl.last_state = SASL_PRETEND_OUTCOME
  \/ sasl.last_state = SASL_RECVED_OUTCOME
  \/ sasl.last_state = SASL_POSTED_OUTCOME

\* pni_emit with the test of line 204 failing
emit_without_collector(t) == t

\* the connection has a collector; events counts the TRANSPORT events put
\* during the current call of the host or the backend
pni_emit(t) == [t EXCEPT !.events = @ + 1]

\* lines 274-285: the request is accepted
accept_desired_state(t, desired_state) ==
  LET t1 == IF t.sasl.last_state = desired_state /\ desired_state = SASL_POSTED_RESPONSE
            THEN [t EXCEPT !.sasl.last_state = SASL_POSTED_INIT] ELSE t
      t2 == IF t1.sasl.last_state = desired_state /\ desired_state = SASL_POSTED_CHALLENGE
            THEN [t1 EXCEPT !.sasl.last_state = SASL_POSTED_MECHANISMS] ELSE t1
  IN pni_emit([t2 EXCEPT !.sasl.desired_state = desired_state])

\* pni_sasl_set_desired_state without the test of line 268
set_desired_state_any_order(t, desired_state) ==
  IF t.sasl.client /\ ~pni_sasl_is_client_state(desired_state) THEN t
  ELSE IF ~t.sasl.client /\ ~pni_sasl_is_server_state(desired_state) THEN t
  ELSE accept_desired_state(t, desired_state)

\* pni_sasl_set_desired_state without the tests of lines 270 and 272
set_desired_state_any_role(t, desired_state) ==
  IF t.sasl.last_state > desired_state THEN t
  ELSE accept_desired_state(t, desired_state)

\* pni_sasl_set_desired_state with line 283 ahead of the tests
set_desired_state_assign_first(t, desired_state) ==
  IF t.sasl.last_state > desired_state
  THEN [t EXCEPT !.sasl.desired_state = desired_state]
  ELSE IF t.sasl.client /\ ~pni_sasl_is_client_state(desired_state)
  THEN [t EXCEPT !.sasl.desired_state = desired_state]
  ELSE IF ~t.sasl.client /\ ~pni_sasl_is_server_state(desired_state)
  THEN [t EXCEPT !.sasl.desired_state = desired_state]
  ELSE accept_desired_state(t, desired_state)

\* pni_sasl_set_desired_state without lines 277-282
set_desired_state_no_rewind(t, desired_state) ==
  IF t.sasl.last_state > desired_state THEN t
  ELSE IF t.sasl.client /\ ~pni_sasl_is_client_state(desired_state) THEN t
  ELSE IF ~t.sasl.client /\ ~pni_sasl_is_server_state(desired_state) THEN t
  ELSE pni_emit([t EXCEPT !.sasl.desired_state = desired_state])

pni_sasl_set_desired_state(t, desired_state) ==
  IF t.sasl.last_state > desired_state THEN t
  ELSE IF t.sasl.client /\ ~pni_sasl_is_client_state(desired_state) THEN t
  ELSE IF ~t.sasl.client /\ ~pni_sasl_is_server_state(desired_state) THEN t
  ELSE accept_desired_state(t, desired_state)

\* pn_post_frame: the encoded frame is appended to the transport's output and
\* transport->available grows by it.  posted lists the frames posted during
\* the current call, ever the kinds of frame posted so far.
pn_post_frame(t, frame) ==
  [t EXCEPT !.posted = Append(@, frame), !.ever = @ \cup {frame},
            !.available = @ + 1]

\* the switch with the case SASL_RECVED_OUTCOME left by break alone, without
\* lines 343-346
post_switch_no_late_init(t, desired_state) ==
  LET break(t1) == [t |-> t1, leave |-> "break", desired_state |-> desired_state]
      continue(first) == [t |-> t, leave |-> "continue", desired_state |-> first]
      sasl == t.sasl
  IN CASE desired_state = SASL_POSTED_INIT ->
            break(pni_emit(pn_post_frame(t, "SASL_INIT")))
       [] desired_state = SASL_PRETEND_OUTCOME /\ sasl.last_state < SASL_POSTED_INIT ->
            continue(SASL_POSTED_INIT)
       [] desired_state = SASL_POSTED_MECHANISMS ->
            break(pni_emit(pn_post_frame(t, "SASL_MECHANISMS")))
       [] desired_state = SASL_POSTED_RESPONSE ->
            break(pni_emit(pn_post_frame(t, "SASL_RESPONSE")))
       [] desired_state \in {SASL_POSTED_CHALLENGE, SASL_POSTED_OUTCOME}
          /\ sasl.last_state < SASL_POSTED_MECHANISMS ->
            continue(SASL_POSTED_MECHANISMS)
       [] desired_state = SASL_POSTED_CHALLENGE ->
            break(pni_emit(pn_post_frame(t, "SASL_CHALLENGE")))
       [] desired_state = SASL_POSTED_OUTCOME ->
            break(pni_emit(pn_post_frame(t, "SASL_OUTCOME")))
       [] desired_state = SASL_NONE ->
            [t |-> t, leave |-> "return", desired_state |-> desired_state]
       [] OTHER -> break(t)

\* the switch with the cases SASL_POSTED_CHALLENGE and SASL_POSTED_OUTCOME
\* posting their frame at once, without lines 327-330 and 335-338
post_switch_no_mechanisms_first(t, desired_state) ==
  LET break(t1) == [t |-> t1, leave |-> "break", desired_state |-> desired_state]
      continue(first) == [t |-> t, leave |-> "continue", desired_state |-> first]
      sasl == t.sasl
  IN CASE desired_state = SASL_POSTED_INIT ->
            break(pni_emit(pn_post_frame(t, "SASL_INIT")))
       [] desired_state = SASL_PRETEND_OUTCOME /\ sasl.last_state < SASL_POSTED_INIT ->
            continue(SASL_POSTED_INIT)
       [] desired_state = SASL_POSTED_MECHANISMS ->
            break(pni_emit(pn_post_frame(t, "SASL_MECHANISMS")))
       [] desired_state = SASL_POSTED_RESPONSE ->
            break(pni_emit(pn_post_frame(t, "SASL_RESPONSE")))
       [] desired_state = SASL_POSTED_CHALLENGE ->
            break(pni_emit(pn_post_frame(t, "SASL_CHALLENGE")))
       [] desired_state = SASL_POSTED_OUTCOME ->
            break(pni_emit(pn_post_frame(t, "SASL_OUTCOME")))
       [] desired_state = SASL_RECVED_OUTCOME
          /\ sasl.last_state < SASL_POSTED_INIT /\ sasl.outcome = PN_SASL_OK ->
            continue(SASL_POSTED_INIT)
       [] desired_state = SASL_NONE ->
            [t |-> t, leave |-> "return", desired_state |-> desired_state]
       [] OTHER -> break(t)

\* the switch with the case SASL_PRETEND_OUTCOME left by break alone, without
\* lines 302-305
post_switch_no_init_first(t, desired_state) ==
  LET break(t1) == [t |-> t1, leave |-> "break", desired_state |-> desired_state]
      continue(first) == [t |-> t, leave |-> "continue", desired_state |-> first]
      sasl == t.sasl
  IN CASE desired_state = SASL_POSTED_INIT ->
            break(pni_emit(pn_post_frame(t, "SASL_INIT")))
       [] desired_state = SASL_POSTED_MECHANISMS ->
            break(pni_emit(pn_post_frame(t, "SASL_MECHANISMS")))
       [] desired_state = SASL_POSTED_RESPONSE ->
            break(pni_emit(pn_post_frame(t, "SASL_RESPONSE")))
       [] desired_state \in {SASL_POSTED_CHALLENGE, SASL_POSTED_OUTCOME}
          /\ sasl.last_state < SASL_POSTED_MECHANISMS ->
            continue(SASL_POSTED_MECHANISMS)
       [] desired_state = SASL_POSTED_CHALLENGE ->
            break(pni_emit(pn_post_frame(t, "SASL_CHALLENGE")))
       [] desired_state = SASL_POSTED_OUTCOME ->
            break(pni_emit(pn_post_frame(t, "SASL_OUTCOME")))
       [] desired_state = SASL_RECVED_OUTCOME
          /\ sasl.last_state < SASL_POSTED_INIT /\ sasl.outcome = PN_SASL_OK ->
            continue(SASL_POSTED_INIT)
       [] desired_state = SASL_NONE ->
            [t |-> t, leave |-> "return", desired_state |-> desired_state]
       [] OTHER -> break(t)

\* the switch of lines 295-350 on the local variable desired_state: the
\* transport it leaves, and how it is left: by break, by continue with a new
\* local desired_state, or by return
post_switch(t, desired_state) ==
  LET break(t1) == [t |-> t1, leave |-> "break", desired_state |-> desired_state]
      continue(first) == [t |-> t, leave |-> "continue", desired_state |-> first]
      sasl == t.sasl
  IN CASE desired_state = SASL_POSTED_INIT ->
            break(pni_emit(pn_post_frame(t, "SASL_INIT")))
       [] desired_state = SASL_PRETEND_OUTCOME ->
            IF sasl.last_state < SASL_POSTED_INIT
            THEN continue(SASL_POSTED_INIT)
            ELSE break(t)
       [] desired_state = SASL_POSTED_MECHANISMS ->
            break(pni_emit(pn_post_frame(t, "SASL_MECHANISMS")))
       [] desired_state = SASL_POSTED_RESPONSE ->
            break(pni_emit(pn_post_frame(t, "SASL_RESPONSE")))
       [] desired_state = SASL_POSTED_CHALLENGE ->
            IF sasl.last_state < SASL_POSTED_MECHANISMS
            THEN continue(SASL_POSTED_MECHANISMS)
            ELSE break(pni_emit(pn_post_frame(t, "SASL_CHALLENGE")))
       [] desired_state = SASL_POSTED_OUTCOME ->
            IF sasl.last_state < SASL_POSTED_MECHANISMS
            THEN continue(SASL_POSTED_MECHANISMS)
            ELSE break(pni_emit(pn_post_frame(t, "SASL_OUTCOME")))
       [] desired_state = SASL_RECVED_OUTCOME ->
            IF sasl.last_state < SASL_POSTED_INIT /\ sasl.outcome = PN_SASL_OK
            THEN continue(SASL_POSTED_INIT)
            ELSE break(t)
       [] desired_state = SASL_NONE ->
            [t |-> t, leave |-> "return", desired_state |-> desired_state]

\* the while loop of pni_post_sasl_frame (line 294) around the switch, and
\* lines 351-352 after a break
RECURSIVE post_loop(_, _)

\* the loop left after the first break, as if line 294 read if for while
post_next_once(r) ==
  CASE r.leave = "return" -> r.t
    [] r.leave = "continue" -> post_loop(r.t, r.desired_state)
    [] r.leave = "break" -> [r.t EXCEPT !.sasl.last_state = r.desired_state]

post_next(r) ==
  CASE r.leave = "return" -> r.t
    [] r.leave = "continue" -> post_loop(r.t, r.desired_state)
    [] r.leave = "break" ->
         post_loop([r.t EXCEPT !.sasl.last_state = r.desired_state],
                   r.t.sasl.desired_state)

post_loop(t, desired_state) ==
  IF ~(t.sasl.desired_state > t.sasl.last_state) THEN t
  ELSE post_next(post_switch(t, desired_state))

pni_post_sasl_frame(t) == post_loop(t, t.sasl.desired_state)

\* how many times the drain runs the switch, started on t with the local
\* target desired_state
RECURSIVE post_rounds(_, _)
rounds_next(r) ==
  CASE r.leave = "return" -> 0
    [] r.leave = "continue" -> post_rounds(r.t, r.desired_state)
    [] r.leave = "break" ->
         post_rounds([r.t EXCEPT !.sasl.last_state = r.desired_state],
                     r.t.sasl.desired_state)

post_rounds(t, desired_state) ==
  IF ~(t.sasl.desired_state > t.sasl.last_state) THEN 0
  ELSE 1 + rounds_next(post_switch(t, desired_state))

\* the state after pn_sasl(transport) on a fresh transport
pn_sasl(server) ==
  [sasl |-> [client |-> ~server,
             selected_mechanism |-> NULL,
             included_mechanisms |-> NULL,
             outcome |-> PN_SASL_NONE,
             desired_state |-> SASL_NONE,
             last_state |-> SASL_NONE,
             input_bypass |-> FALSE,
             output_bypass |-> FALSE],
   io_layer |-> sasl_header_layer,
   close_sent |-> FALSE,
   tail_closed |-> FALSE,
   head_closed |-> FALSE,
   condition |-> Unset,
   authenticated |-> FALSE,
   available |-> 0,
   posted |-> <<>>,
   ever |-> {},
   events |-> 0,
   amqp_in |-> 0,
   advertised |-> NULL,
   offered |-> NULL,
   hdr_in |-> 0,
   hdr_out |-> 0]

(***************************************************************************)
(* The mechanism backend and the public configuration calls.               *)
(*                                                                         *)
(* The backend (pni_init_client, pni_init_server, pni_process_init, ...)    *)
(* is an                                                                   *)
(* external collaborator.  What it decides in one call is the record b:    *)
(*   init_ok  the result of pni_init_client / pni_init_server              *)
(*   proc_ok  whether pni_process_mechanisms finds a mechanism it accepts  *)
(*   pick     which of the offered mechanisms it selects                   *)
(*   done     the outcome it reports with pn_sasl_done: {o}, or {} if it   *)
(*            reports none                                                 *)
(*   want     the state it asks for with pni_sasl_set_desired_state: {s},  *)
(*            or {} if it asks for none                                    *)
(***************************************************************************)
\* the sets with at most one element of S
Opt(S) == {{}} \cup {{x} : x \in S}
TheOne(S) == CHOOSE x \in S : TRUE

\* the outcomes a peer or the backend reports in the model
Outcomes == {PN_SASL_OK, PN_SASL_AUTH}

pn_sasl_done(t, outcome) == [t EXCEPT !.sasl.outcome = outcome]

\* the space separated words of a string, in order
RECURSIVE words_from(_, _)
words_from(str, c) ==
  IF c > Len(str) THEN <<>>
  ELSE LET sp == strchr_space(str, c)
           e == IF sp = 0 THEN Len(str) + 1 ELSE sp
           rest == words_from(str, e + 1)
       IN IF e = c THEN rest ELSE <<SubSeq(str, c, e - 1)>> \o rest

\* the backend selects one of the offered mechanisms w and records it, or
\* fails
select_mechanism(t, w, b) ==
  IF b.proc_ok /\ Len(w) > 0
  THEN [ok |-> TRUE,
        t |-> [t EXCEPT !.sasl.selected_mechanism =
                          StrPtr(w[IF b.pick > Len(w) THEN Len(w) ELSE b.pick])]]
  ELSE [ok |-> FALSE, t |-> t]

\* pni_process_mechanisms over the space separated list mechs
pni_process_mechanisms(t, mechs, b) == select_mechanism(t, words_from(mechs, 1), b)

\* lines 398-405 and 594-603: with r what pni_process_mechanisms returned,
\* the client goes on to state if it and pni_init_client succeeded, and
\* gives up otherwise
client_start(t, r, b, state) ==
  IF b.init_ok /\ r.ok
  THEN pni_sasl_set_desired_state(r.t, state)
  ELSE pni_sasl_set_desired_state(
         [t EXCEPT !.sasl.outcome = PN_SASL_PERM], SASL_RECVED_OUTCOME)

\* pni_process_init / pni_process_challenge / pni_process_response: the
\* backend may report an outcome and may ask for a state
pni_process(t, b) ==
  LET t1 == IF b.done = {} THEN t ELSE pn_sasl_done(t, TheOne(b.done))
  IN IF b.want = {} THEN t1 ELSE pni_sasl_set_desired_state(t1, TheOne(b.want))

pni_sasl_force_anonymous(t, b) ==
  IF t.sasl.client
  THEN client_start(t, pni_process_mechanisms(t, ANONYMOUS, b), b,
                    SASL_PRETEND_OUTCOME)
  ELSE t

\* pn_sasl_allowed_mechs with the result of strcmp at line 449 taken the
\* wrong way round
allowed_mechs_strcmp_nonzero(t, mechs, b) ==
  IF mechs # ANONYMOUS
  THEN pni_sasl_force_anonymous([t EXCEPT !.sasl.included_mechanisms = StrPtr(mechs)], b)
  ELSE [t EXCEPT !.sasl.included_mechanisms = StrPtr(mechs)]

\* mechs is a string; a NULL argument reaches strcmp and is not modelled
pn_sasl_allowed_mechs(t, mechs, b) ==
  LET t1 == [t EXCEPT !.sasl.included_mechanisms = StrPtr(mechs)]
  IN IF mechs = ANONYMOUS THEN pni_sasl_force_anonymous(t1, b) ELSE t1

pni_sasl_server_init(t, b) ==
  IF ~b.init_ok THEN t
  ELSE pni_sasl_set_desired_state(t, SASL_POSTED_MECHANISMS)

pn_sasl_process(t, b) ==
  IF ~t.sasl.client /\ t.sasl.desired_state < SASL_POSTED_MECHANISMS
  THEN pni_sasl_server_init(t, b)
  ELSE t

(***************************************************************************)
(* Received frames.  A unit of peer input is a record with a type: a SASL  *)
(* frame, the 8-byte SASL header (H) or one half of it (HA = "AMQP",       *)
(* HB = 3 1 0 0), or 8 bytes that are neither (AMQP: the header of the     *)
(* AMQP layer beneath and what follows it).                                *)
(***************************************************************************)
FrameTypes == {"SASL_INIT", "SASL_MECHANISMS", "SASL_CHALLENGE", "SASL_RESPONSE",
               "SASL_OUTCOME"}

pn_do_init(t, frame, b) ==
  pni_process([t EXCEPT !.sasl.selected_mechanism = StrPtr(frame.mech)], b)

\* the symbols of the frame that pass the allow-list, each followed by a space
RECURSIVE addf_mechs(_, _)
addf_mechs(included, symbols) ==
  IF symbols = <<>> THEN <<>>
  ELSE (IF pni_included_mech(included, Head(symbols))
        THEN Head(symbols) \o <<" ">> ELSE <<>>)
       \o addf_mechs(included, Tail(symbols))

\* lines 580-592: the filtered list with the last separator cut off
cut_last(mechs) ==
  IF Len(mechs) > 0 THEN SubSeq(mechs, 1, Len(mechs) - 1) ELSE mechs

filtered_mechs(included, symbols) == cut_last(addf_mechs(included, symbols))

\* lines 594-603, with t the transport once mechs is built
start_with_mechs(t, mechs, b) ==
  client_start(t, pni_process_mechanisms(t, mechs, b), b, SASL_POSTED_INIT)

\* pni_process_mechanisms is called with mechs if pni_init_client succeeded
offer_mechs(t, mechs, b) ==
  start_with_mechs(IF b.init_ok THEN [t EXCEPT !.offered = StrPtr(mechs)] ELSE t,
                   mechs, b)

pn_do_mechanisms(t, frame, b) ==
  IF t.sasl.last_state = SASL_PRETEND_OUTCOME THEN t
  ELSE offer_mechs([t EXCEPT !.advertised = StrPtr(frame.mechs)],
                   filtered_mechs(t.sasl.included_mechanisms, frame.mechs), b)

pn_do_challenge(t, frame, b) == pni_process(t, b)

pn_do_response(t, frame, b) == pni_process(t, b)

pn_do_outcome(t, frame) ==
  LET t1 == [t EXCEPT !.sasl.outcome = frame.code,
                      !.authenticated = (frame.code = PN_SASL_OK)]
  IN pni_sasl_set_desired_state(t1, SASL_RECVED_OUTCOME)

\* pni_dispatch_frame: the handler is chosen by the performative alone
pni_dispatch_frame(t, frame, b) ==
  CASE frame.type = "SASL_INIT" -> pn_do_init(t, frame, b)
    [] frame.type = "SASL_MECHANISMS" -> pn_do_mechanisms(t, frame, b)
    [] frame.type = "SASL_CHALLENGE" -> pn_do_challenge(t, frame, b)
    [] frame.type = "SASL_RESPONSE" -> pn_do_response(t, frame, b)
    [] frame.type = "SASL_OUTCOME" -> pn_do_outcome(t, frame)

\* pn_dispatcher_input with batch = false: one complete frame at the head of
\* the bytes is read and dispatched; 0 when there is none
pn_dispatcher_input(t, bytes, b) ==
  IF bytes # <<>> /\ Head(bytes).type \in FrameTypes
  THEN [t |-> pni_dispatch_frame(t, Head(bytes), b), n |-> 1]
  ELSE [t |-> t, n |-> 0]

\* pn_dispatcher_output: up to size units of the posted frames are copied out
pn_dispatcher_output(t, size) ==
  LET n == IF size < t.available THEN size ELSE t.available
  IN [t |-> [t EXCEPT !.available = @ - n], n |-> n]

\* lines 526-532, r what pn_dispatcher_input returned
sasl_input_return(r) ==
  IF r.n = 0 /\ pni_sasl_is_final_input_state(r.t.sasl)
  THEN [t |-> r.t, n |-> PN_EOS]
  ELSE r

pn_sasl_input(t, bytes, b) ==
  sasl_input_return(pn_dispatcher_input(pn_sasl_process(t, b), bytes, b))

pn_transport_close_tail(t) == [t EXCEPT !.tail_closed = TRUE]

\* lines 541-549 without lines 543-545
sasl_output_return_no_close(t, size) ==
  IF t.available = 0 /\ pni_sasl_is_final_output_state(t.sasl)
  THEN [t |-> t, n |-> PN_EOS]
  ELSE pn_dispatcher_output(t, size)

\* the return of pn_sasl_output without the test of transport->available
sasl_output_return_pending(t, size) ==
  IF pni_sasl_is_final_output_state(t.sasl)
  THEN [t |-> IF t.sasl.outcome # PN_SASL_OK /\ pni_sasl_is_final_input_state(t.sasl)
              THEN pn_transport_close_tail(t) ELSE t,
        n |-> PN_EOS]
  ELSE pn_dispatcher_output(t, size)

\* lines 541-549, t the transport after pni_post_sasl_frame
sasl_output_return(t, size) ==
  IF t.available = 0 /\ pni_sasl_is_final_output_state(t.sasl)
  THEN [t |-> IF t.sasl.outcome # PN_SASL_OK /\ pni_sasl_is_final_input_state(t.sasl)
              THEN pn_transport_close_tail(t) ELSE t,
        n |-> PN_EOS]
  ELSE pn_dispatcher_output(t, size)

pn_sasl_output(t, size, b) ==
  sasl_output_return(pni_post_sasl_frame(pn_sasl_process(t, b)), size)

(***************************************************************************)
(* The io layers of the SASL slot.                                         *)
(***************************************************************************)
HalfUnits == {"HA", "HB"}

\* bytes of one unit of input: half a header is 4, everything else is taken
\* to be 8 (the size of a protocol header and of an empty frame)
UnitSize(u) == IF u.type \in HalfUnits THEN 4 ELSE SASL_HEADER_LEN

\* bytes without their first n bytes (n ends on a unit boundary)
RECURSIVE Consume(_, _)
Consume(bytes, n) ==
  IF n <= 0 \/ bytes = <<>> THEN bytes
  ELSE Consume(Tail(bytes), n - UnitSize(Head(bytes)))

\* pni_sniff_header over the first 8 bytes
pni_sniff_header(bytes) ==
  IF bytes = <<>> THEN "PNI_PROTOCOL_INSUFFICIENT"
  ELSE IF Head(bytes).type = "H" THEN "PNI_PROTOCOL_AMQP_SASL"
  ELSE IF Head(bytes).type = "HA"
       THEN IF Len(bytes) = 1 THEN "PNI_PROTOCOL_INSUFFICIENT"
            ELSE "PNI_PROTOCOL_UNKNOWN"
  ELSE IF Head(bytes).type = "AMQP" THEN "PNI_PROTOCOL_AMQP1"
  ELSE "PNI_PROTOCOL_UNKNOWN"

\* pn_transport_capacity(transport) == PN_EOS
transport_eos(t) == t.tail_closed

\* pn_do_error: the condition is recorded and the tail is closed
pn_do_error(t, condition) ==
  [t EXCEPT !.condition = IF @ = Unset THEN condition ELSE @,
            !.tail_closed = TRUE]

pn_set_error_layer(t) == [t EXCEPT !.io_layer = pni_error_layer]

\* lines 99-106 and 113-116
framing_error(t) ==
  [t |-> pn_set_error_layer(
           pn_do_error([t EXCEPT !.close_sent = TRUE], "amqp:connection:framing-error")),
   n |-> PN_EOS]

\* pni_passthru_layer.process_input: the bytes go to the layer beneath, which
\* takes the first unit
passthru_process_input(t, bytes) ==
  IF bytes = <<>> THEN [t |-> t, n |-> 0]
  ELSE [t |-> [t EXCEPT !.amqp_in = @ + 1], n |-> UnitSize(Head(bytes))]

\* pni_passthru_layer.process_output: the layer beneath writes its own bytes
passthru_process_output(t, size) == [t |-> t, n |-> 0]

\* pn_input_read_sasl_header without line 94: an insufficient header falls
\* through to the error
read_sasl_header_no_wait(t, bytes) ==
  IF pni_sniff_header(bytes) = "PNI_PROTOCOL_AMQP_SASL"
  THEN [t |-> [t EXCEPT !.io_layer = IF @ = sasl_read_header_layer
                                     THEN sasl_layer
                                     ELSE sasl_write_header_layer,
                        !.hdr_in = @ + 1],
        n |-> SASL_HEADER_LEN]
  ELSE framing_error(t)

\* pn_input_read_sasl_header without the test of line 94: an insufficient
\* header waits for more even at EOS
read_sasl_header_waits_at_eos(t, bytes) ==
  IF pni_sniff_header(bytes) = "PNI_PROTOCOL_AMQP_SASL"
  THEN [t |-> [t EXCEPT !.io_layer = IF @ = sasl_read_header_layer
                                     THEN sasl_layer
                                     ELSE sasl_write_header_layer,
                        !.hdr_in = @ + 1],
        n |-> SASL_HEADER_LEN]
  ELSE IF pni_sniff_header(bytes) = "PNI_PROTOCOL_INSUFFICIENT"
  THEN [t |-> t, n |-> 0]
  ELSE framing_error(t)

\* pn_input_read_sasl_header without the test of line 84
read_sasl_header_untested(t, bytes) ==
  IF pni_sniff_header(bytes) = "PNI_PROTOCOL_AMQP_SASL"
  THEN [t |-> [t EXCEPT !.io_layer = sasl_write_header_layer, !.hdr_in = @ + 1],
        n |-> SASL_HEADER_LEN]
  ELSE IF pni_sniff_header(bytes) = "PNI_PROTOCOL_INSUFFICIENT" /\ ~transport_eos(t)
  THEN [t |-> t, n |-> 0]
  ELSE framing_error(t)

pn_input_read_sasl_header(t, bytes) ==
  LET eos == transport_eos(t)
      protocol == pni_sniff_header(bytes)
  IN IF protocol = "PNI_PROTOCOL_AMQP_SASL"
     THEN [t |-> [t EXCEPT !.io_layer = IF @ = sasl_read_header_layer
                                        THEN sasl_layer
                                        ELSE sasl_write_header_layer,
                           !.hdr_in = @ + 1],
           n |-> SASL_HEADER_LEN]
     ELSE IF protocol = "PNI_PROTOCOL_INSUFFICIENT" /\ ~eos
     THEN [t |-> t, n |-> 0]
     ELSE framing_error(t)

\* lines 123-125 without the rewrite of the slot
input_bypass_keeps_slot(t) == [t EXCEPT !.sasl.input_bypass = TRUE]

\* lines 123-126: the input side is done
input_bypass(t) ==
  [t EXCEPT !.sasl.input_bypass = TRUE,
            !.io_layer = IF t.sasl.output_bypass THEN pni_passthru_layer ELSE @]

\* lines 119-127, r what pn_sasl_input returned
read_sasl_return(r, bytes) ==
  IF r.n # PN_EOS THEN r
  ELSE passthru_process_input(input_bypass(r.t), bytes)

\* pn_input_read_sasl with the test of line 119 taken the wrong way round
read_sasl_bypass_inverted(t, bytes, b) ==
  IF transport_eos(t) THEN framing_error(t)
  ELSE IF t.sasl.input_bypass
  THEN read_sasl_return(pn_sasl_input(t, bytes, b), bytes)
  ELSE passthru_process_input(t, bytes)

pn_input_read_sasl(t, bytes, b) ==
  IF transport_eos(t) THEN framing_error(t)
  ELSE IF ~t.sasl.input_bypass
  THEN read_sasl_return(pn_sasl_input(t, bytes, b), bytes)
  ELSE passthru_process_input(t, bytes)

\* pn_output_write_sasl_header without the test of line 136
write_sasl_header_untested(t) ==
  [t |-> [t EXCEPT !.io_layer = sasl_read_header_layer, !.hdr_out = @ + 1],
   n |-> SASL_HEADER_LEN]

pn_output_write_sasl_header(t) ==
  [t |-> [t EXCEPT !.io_layer = IF @ = sasl_write_header_layer
                                 THEN sasl_layer
                                 ELSE sasl_read_header_layer,
                    !.hdr_out = @ + 1],
   n |-> SASL_HEADER_LEN]

\* lines 156-159: the output side is done
output_bypass(t) ==
  [t EXCEPT !.sasl.output_bypass = TRUE,
            !.io_layer = IF t.sasl.input_bypass THEN pni_passthru_layer ELSE @]

\* lines 152-160, r what pn_sasl_output returned
write_sasl_return(r, size) ==
  IF r.n # PN_EOS THEN r
  ELSE passthru_process_output(output_bypass(r.t), size)

pn_output_write_sasl(t, size, b) ==
  IF ~t.sasl.output_bypass
  THEN write_sasl_return(IF t.close_sent THEN [t |-> t, n |-> PN_EOS]
                         ELSE pn_sasl_output(t, size, b),
                         size)
  ELSE passthru_process_output(t, size)

\* io_layers[layer]->process_input, by the layer the slot holds
process_input(t, bytes, b) ==
  CASE t.io_layer \in {sasl_header_layer, sasl_read_header_layer} ->
         pn_input_read_sasl_header(t, bytes)
    [] t.io_layer \in {sasl_write_header_layer, sasl_layer} ->
         pn_input_read_sasl(t, bytes, b)
    [] t.io_layer = pni_passthru_layer -> passthru_process_input(t, bytes)

\* io_layers[layer]->process_output
process_output(t, size, b) ==
  CASE t.io_layer \in {sasl_header_layer, sasl_write_header_layer} ->
         pn_output_write_sasl_header(t)
    [] t.io_layer \in {sasl_read_header_layer, sasl_layer} ->
         pn_output_write_sasl(t, size, b)
    [] t.io_layer = pni_passthru_layer -> passthru_process_output(t, size)

(***************************************************************************)
(* The state machine of the model.  op is the name of the call that led    *)
(* to the state; the fields events, posted and amqp_in of the transport    *)
(* are what that call put, posted and handed to the AMQP layer, advertised *)
(* and offered the symbols of the MECHANISMS frame it handled and the list *)
(* it gave pni_process_mechanisms.  Once the slot holds the error layer    *)
(* the connection is over: the transport calls no processor of the slot    *)
(* again and the model stops there.                                        *)
(***************************************************************************)
PeerUnits ==
  {[type |-> "H"], [type |-> "HA"], [type |-> "HB"], [type |-> "AMQP"],
   [type |-> "SASL_INIT", mech |-> PLAIN],
   [type |-> "SASL_MECHANISMS", mechs |-> <<ANONYMOUS, PLAIN>>],
   [type |-> "SASL_CHALLENGE"]}
  \cup {[type |-> "SASL_OUTCOME", code |-> c] : c \in Outcomes}

\* the backend's pni_process_init and its fellows ask for one of these
ReplyStates == {SASL_POSTED_RESPONSE, SASL_POSTED_CHALLENGE, SASL_POSTED_OUTCOME}

\* What the backend can decide in the calls one step makes.  A decision no
\* call of the step reads is left at its default, so that one step is not
\* taken many times over: init_ok is read by pn_sasl_process on a server that
\* has not yet asked for MECHANISMS and by the MECHANISMS handler, proc_ok and
\* pick by pni_process_mechanisms, done and want by pni_process.
Choices(init, mech, proc) ==
  [init_ok : IF init THEN BOOLEAN ELSE {TRUE},
   proc_ok : IF mech THEN BOOLEAN ELSE {TRUE},
   pick : IF mech THEN 1..2 ELSE {1},
   done : IF proc THEN Opt(Outcomes) ELSE {{}},
   want : IF proc THEN Opt(ReplyStates) ELSE {{}}]

ServerInitPending ==
  ~transport.sasl.client /\ transport.sasl.desired_state < SASL_POSTED_MECHANISMS

\* the frame pn_sasl_input would dispatch from bytes, if any
Dispatched(bytes, type) ==
  /\ transport.io_layer \in {sasl_write_header_layer, sasl_layer}
  /\ ~transport.sasl.input_bypass
  /\ bytes # <<>>
  /\ Head(bytes).type \in type

InputChoices(bytes) ==
  Choices(ServerInitPending \/ Dispatched(bytes, {"SASL_MECHANISMS"}),
          Dispatched(bytes, {"SASL_MECHANISMS"}),
          Dispatched(bytes, {"SASL_INIT", "SASL_CHALLENGE", "SASL_RESPONSE"}))

OutputChoices == Choices(ServerInitPending, FALSE, FALSE)

AllowChoices(mechs) ==
  IF mechs = ANONYMOUS /\ transport.sasl.client
  THEN {b \in Choices(TRUE, TRUE, FALSE) : b.pick = 1}
  ELSE Choices(FALSE, FALSE, FALSE)

AllowLists == {ANONYMOUS, PLAIN}

OutSizes == 1..2

\* the transport is still being driven
Live == transport.io_layer # pni_error_layer

\* the bytes left in the read buffer after a processor returned n: what an
\* input side that reported PN_EOS left unread is dropped
Unread(bytes, n) == IF n = PN_EOS THEN <<>> ELSE Consume(bytes, n)

\* every call starts with no event put, no frame posted, no byte handed on
T0 ==
  [transport EXCEPT !.events = 0, !.posted = <<>>, !.amqp_in = 0,
                    !.advertised = NULL, !.offered = NULL]

\* the read buffer after the host has copied u behind bytes: the second half
\* of the header completes a first half
Received(bytes, u) ==
  IF bytes # <<>> /\ bytes[Len(bytes)].type = "HA" /\ u.type = "HB"
  THEN SubSeq(bytes, 1, Len(bytes) - 1) \o <<[type |-> "H"]>>
  ELSE Append(bytes, u)

\* the connection_driver after construction and configure: the collector is
\* empty and handler_ is set or 0.  put counts the events ever put,
\* dispatched lists the events the last dispatch took from the collector,
\* live is what it returned, and escaped tells that an exception left it
\* instead.
connection_driver(handler) ==
  [collector |-> <<>>, handler |-> handler, put |-> 0,
   dispatched |-> <<>>, live |-> TRUE, escaped |-> FALSE]

Init ==
  /\ \E server \in BOOLEAN : transport = pn_sasl(server)
  /\ inbuf = <<>>
  /\ op = "pn_sasl"
  /\ driver = connection_driver(TRUE)
  /\ encoder = NoFrame

\* what the peer may send next: its header, whole or in halves, until the
\* header has been read; after that every 8 bytes that are not a frame are
\* alike to the SASL layer and are the unit AMQP, and so are all bytes behind
\* such a unit that is still unread, since no frame is read past it
MaySend(u) ==
  /\ u.type \in {"H", "HA"} => transport.hdr_in = 0
  /\ u.type = "HB" => inbuf # <<>> /\ inbuf[Len(inbuf)].type = "HA"
  /\ (inbuf # <<>> /\ Head(inbuf).type = "AMQP") => u.type = "AMQP"

\* one call of the slot's input processor with the bytes of the read buffer
Consumed(bytes, r) ==
  /\ Len(Unread(bytes, r.n)) <= MaxInBuf
  /\ transport' = r.t
  /\ inbuf' = Unread(bytes, r.n)

Input(bytes, b) == Consumed(bytes, process_input(T0, bytes, b))

\* the host copies the received unit u into the read buffer and commits it,
\* and the slot's input processor is called with the bytes of the buffer
ReadDone(u, b) ==
  /\ Live
  /\ ~transport.tail_closed
  /\ MaySend(u)
  /\ Input(Received(inbuf, u), b)
  /\ op' = "read_done"

\* the host closes the input side
ReadClose ==
  /\ Live
  /\ ~transport.tail_closed
  /\ transport' = pn_transport_close_tail(T0)
  /\ op' = "pn_transport_close_tail"
  /\ UNCHANGED inbuf

\* the slot's input processor is called again with the bytes left in the
\* buffer, or with none
ProcessInput(b) ==
  /\ Live
  /\ Input(inbuf, b)
  /\ op' = "process_input"

\* the written bytes leave the transport; what is pending stays bounded
Written(r) ==
  /\ r.t.available <= MaxAvailable
  /\ transport' = r.t

ProcessOutput(size, b) ==
  /\ Live
  /\ Written(process_output(T0, size, b))
  /\ op' = "process_output"
  /\ UNCHANGED inbuf

AllowedMechs(mechs, b) ==
  /\ Live
  /\ transport' = pn_sasl_allowed_mechs(T0, mechs, b)
  /\ op' = "pn_sasl_allowed_mechs"
  /\ UNCHANGED inbuf

Done(outcome) ==
  /\ Live
  /\ transport' = pn_sasl_done(T0, outcome)
  /\ op' = "pn_sasl_done"
  /\ UNCHANGED inbuf

SetDesiredState(s) ==
  /\ Live
  /\ transport' = pni_sasl_set_desired_state(T0, s)
  /\ op' = "pni_sasl_set_desired_state"
  /\ UNCHANGED inbuf

\* the calls into the SASL layer; the events they put stay in the count
\* transport.events and the driver is left alone
Next ==
  \/ \E u \in PeerUnits : \E b \in InputChoices(Received(inbuf, u)) :
       ReadDone(u, b) /\ UNCHANGED <<driver, encoder>>
  \/ ReadClose /\ UNCHANGED <<driver, encoder>>
  \/ \E b \in InputChoices(inbuf) : ProcessInput(b) /\ UNCHANGED <<driver, encoder>>
  \/ \E size \in OutSizes, b \in OutputChoices :
       ProcessOutput(size, b) /\ UNCHANGED <<driver, encoder>>
  \/ \E mechs \in AllowLists : \E b \in AllowChoices(mechs) :
       AllowedMechs(mechs, b) /\ UNCHANGED <<driver, encoder>>
  \/ \E outcome \in Outcomes : Done(outcome) /\ UNCHANGED <<driver, encoder>>
  \/ \E s \in States : SetDesiredState(s) /\ UNCHANGED <<driver, encoder>>

Spec == Init /\ [][Next]_vars

(***************************************************************************)
(* The connection_driver: the host's calls reach the transport through it, *)
(* the events the transport puts are queued in its collector, and dispatch *)
(* hands them to the handler.                                              *)
(***************************************************************************)
\* the transport puts at most this many events in all
MaxEvents == 2

\* the conditions the host reports with disconnected
ErrorConditions == {"proton:io", "amqp:connection:forced"}

\* what a handler callback does with one event: it returns, or throws an
\* object of a class derived from std::exception, or throws anything else
HandlerOutcomes == {"returns", "std::exception", "other"}

pn_condition_is_set(t) == t.condition # Unset

set_error_condition(t, err) == [t EXCEPT !.condition = err]

\* both halves of the transport are closed
pn_connection_driver_close(t) ==
  [pn_transport_close_tail(t) EXCEPT !.head_closed = TRUE]

disconnected_overwrites(t, err) ==
  pn_connection_driver_close(set_error_condition(t, err))

disconnected(t, err) ==
  pn_connection_driver_close(
    IF ~pn_condition_is_set(t) THEN set_error_condition(t, err) ELSE t)

\* both halves are closed and no event is left
pn_connection_driver_finished(t, d) ==
  t.head_closed /\ t.tail_closed /\ d.collector = <<>>

\* the catch clause of dispatch
catch_std_exception(t) ==
  IF ~pn_condition_is_set(t) THEN [t EXCEPT !.condition = "exception"] ELSE t

\* the event is taken from the collector
next_event(d) ==
  [d EXCEPT !.collector = Tail(@), !.dispatched = Append(@, Head(d.collector))]

RECURSIVE dispatch_loop(_, _, _)

\* the body of the loop for the event taken: thrown is the outcome of the
\* handler's callback, and a driver without handler calls none
dispatch_body(d, t, thrown, rest) ==
  IF d.handler /\ thrown = "other"
  THEN [d |-> [d EXCEPT !.escaped = TRUE], t |-> t]
  ELSE dispatch_loop(d, IF d.handler /\ thrown = "std::exception"
                        THEN catch_std_exception(t) ELSE t, rest)

\* the loop of dispatch; outcomes[i] is what the handler does with the i-th
\* event taken
dispatch_loop(d, t, outcomes) ==
  IF d.collector = <<>>
  THEN [d |-> [d EXCEPT !.live = ~pn_connection_driver_finished(t, d)], t |-> t]
  ELSE dispatch_body(next_event(d), t, Head(outcomes), Tail(outcomes))

dispatch(d, t, outcomes) ==
  dispatch_loop([d EXCEPT !.dispatched = <<>>, !.escaped = FALSE], t, outcomes)

\* the events a call put are queued behind those already in the collector;
\* id tells the events apart
Event(id) == [type |-> "PN_TRANSPORT", id |-> id]

Put(d, n) ==
  [d EXCEPT !.collector = @ \o [i \in 1..n |-> Event(d.put + i)],
            !.put = @ + n]

Collected ==
  /\ driver.put + transport'.events <= MaxEvents
  /\ driver' = Put(driver, transport'.events)
  /\ UNCHANGED encoder

DriverInit ==
  /\ \E server \in BOOLEAN : transport = pn_sasl(server)
  /\ inbuf = <<>>
  /\ op = "pn_sasl"
  /\ \E handler \in BOOLEAN : driver = connection_driver(handler)
  /\ encoder = NoFrame

Disconnected(err) ==
  /\ transport' = disconnected(T0, err)
  /\ op' = "disconnected"
  /\ UNCHANGED <<inbuf, driver, encoder>>

DispatchResult(r) ==
  /\ transport' = r.t
  /\ driver' = r.d

Dispatch(outcomes) ==
  /\ DispatchResult(dispatch(driver, T0, outcomes))
  /\ op' = "dispatch"
  /\ UNCHANGED <<inbuf, encoder>>

\* the peer of the driven connection sends its header whole and then frames
DriverUnits == {u \in PeerUnits : u.type \notin {"HA", "HB", "AMQP"}}

DriverNext ==
  \/ \E u \in DriverUnits : \E b \in InputChoices(Received(inbuf, u)) :
       ReadDone(u, b) /\ Collected
  \/ ReadClose /\ Collected
  \/ \E size \in OutSizes, b \in OutputChoices :
       ProcessOutput(size, b) /\ Collected
  \/ \E err \in ErrorConditions : Disconnected(err)
  \/ \E outcomes \in [1..Len(driver.collector) -> HandlerOutcomes] :
       Dispatch(outcomes)

DriverSpec == DriverInit /\ [][DriverNext]_vars

(***************************************************************************)
(* The mechanism filter: a client is given an allow-list and reads         *)
(* MECHANISMS frames whose symbols the peer chooses.                       *)
(***************************************************************************)
\* a MECHANISMS frame advertises at most this many symbols
MaxSymbols == 2

Lower(str) == [i \in 1..Len(str) |-> ToLower(str[i])]

\* the symbols a peer advertises: mechanism names, one with a space in it,
\* and the empty symbol
MechSymbols == {GSSAPI, PLAIN, ANONYMOUS, PLAIN \o <<" ">> \o ANONYMOUS, <<>>}

\* the allow-lists the application sets: names in another order than the
\* peer's and in lower case, a name as the prefix and as the suffix of a
\* longer word, a space at the end and two in a row, and the empty list
MechLists ==
  {PLAIN \o <<" ">> \o ANONYMOUS, Lower(ANONYMOUS) \o <<" ">> \o GSSAPI,
   PLAIN \o <<"S">>, <<"S">> \o PLAIN, PLAIN \o <<" ">>,
   GSSAPI \o <<" ", " ">> \o PLAIN, <<>>}

RECURSIVE SymbolLists(_)
SymbolLists(n) ==
  IF n = 0 THEN {<<>>}
  ELSE SymbolLists(n - 1)
       \cup {Append(l, s) : l \in {l \in SymbolLists(n - 1) : Len(l) = n - 1},
                            s \in MechSymbols}

MechUnits ==
  {[type |-> "H"]}
  \cup {[type |-> "SASL_MECHANISMS", mechs |-> l] : l \in SymbolLists(MaxSymbols)}

MechInit ==
  /\ transport = pn_sasl(FALSE)
  /\ inbuf = <<>>
  /\ op = "pn_sasl"
  /\ driver = connection_driver(TRUE)
  /\ encoder = NoFrame

MechNext ==
  \/ \E mechs \in MechLists : \E b \in AllowChoices(mechs) :
       AllowedMechs(mechs, b) /\ UNCHANGED <<driver, encoder>>
  \/ \E u \in MechUnits : \E b \in InputChoices(Received(inbuf, u)) :
       ReadDone(u, b) /\ UNCHANGED <<driver, encoder>>

MechSpec == MechInit /\ [][MechNext]_vars

(***************************************************************************)
(* Properties.                                                             *)
(***************************************************************************)
ServerOnlyStates ==
  {SASL_POSTED_MECHANISMS, SASL_POSTED_CHALLENGE, SASL_POSTED_OUTCOME}

ClientOnlyStates ==
  {SASL_POSTED_INIT, SASL_POSTED_RESPONSE, SASL_PRETEND_OUTCOME, SASL_RECVED_OUTCOME}

\* the next call of the slot's output processor reaches pn_sasl_output
SaslOutputCalled ==
  /\ transport.io_layer \in {sasl_read_header_layer, sasl_layer}
  /\ ~transport.sasl.output_bypass
  /\ ~transport.close_sent

MechanismsUnits == {u \in PeerUnits : u.type = "SASL_MECHANISMS"}

OutcomeUnits == {u \in PeerUnits : u.type = "SASL_OUTCOME"}

\* C1: in every reachable state, that is whenever a call has returned,
\* last_state <= desired_state
LastStateAtMostDesired ==
  transport.sasl.last_state <= transport.sasl.desired_state

\* a drain has posted the prerequisite SASL_INIT and gone on to the requested
\* PRETEND_OUTCOME
DrainedToPretend ==
  /\ op = "process_output"
  /\ transport.posted = <<"SASL_INIT">>
  /\ transport.sasl.last_state = SASL_PRETEND_OUTCOME
  /\ transport.sasl.desired_state = SASL_PRETEND_OUTCOME

\* C2: on a client neither last_state nor desired_state is a server-only
\* state, on a server neither is a client-only state
RoleStatesOnly ==
  /\ transport.sasl.client =>
       /\ transport.sasl.last_state \notin ServerOnlyStates
       /\ transport.sasl.desired_state \notin ServerOnlyStates
  /\ ~transport.sasl.client =>
       /\ transport.sasl.last_state \notin ClientOnlyStates
       /\ transport.sasl.desired_state \notin ClientOnlyStates

\* a server has dispatched an OUTCOME frame, whose handler asks for
\* RECVED_OUTCOME
ServerGotOutcome ==
  /\ ~transport.sasl.client
  /\ transport.authenticated
  /\ op = "read_done"

\* s is a downgrade or a role violation
Rejected(s) ==
  \/ s < transport.sasl.last_state
  \/ transport.sasl.client /\ s \in ServerOnlyStates
  \/ ~transport.sasl.client /\ s \in ClientOnlyStates

\* C3: a call pni_sasl_set_desired_state(s) with s a downgrade or a role
\* violation leaves last_state and desired_state as they were
RejectedLeavesStates ==
  [][\A s \in States :
       (op' = "pni_sasl_set_desired_state" /\ Rejected(s) /\ SetDesiredState(s)) =>
         /\ transport'.sasl.last_state = transport.sasl.last_state
         /\ transport'.sasl.desired_state = transport.sasl.desired_state]_vars

\* a call of pni_sasl_set_desired_state has returned without pni_emit: it
\* was rejected
RejectedCall ==
  /\ op = "pni_sasl_set_desired_state"
  /\ transport.events = 0

\* C4 as stated: bytes are handed to the AMQP layer only by a call that
\* leaves the slot holding the passthru layer
ForwardedOnlyByPassthru ==
  transport.amqp_in > 0 => transport.io_layer = pni_passthru_layer

\* C4 amended: bytes are handed to the AMQP layer only by a call that leaves
\* input_bypass set
ForwardedOnlyInBypass ==
  transport.amqp_in > 0 => transport.sasl.input_bypass

\* bytes have been handed on with only input_bypass set and the slot still
\* holding sasl_layer
ForwardedBeforePassthru ==
  /\ transport.amqp_in > 0
  /\ transport.sasl.input_bypass
  /\ ~transport.sasl.output_bypass
  /\ transport.io_layer = sasl_layer

\* the place of a layer in the order of the pipeline; the error layer ends it
LayerRank(l) ==
  CASE l = sasl_header_layer -> 0
    [] l \in {sasl_write_header_layer, sasl_read_header_layer} -> 1
    [] l = sasl_layer -> 2
    [] l = pni_passthru_layer -> 3
    [] l = pni_error_layer -> 4

\* C5: the slot never goes back to an earlier layer and never switches
\* between sasl_write_header and sasl_read_header
LayerMovesForward ==
  [][/\ LayerRank(transport'.io_layer) >= LayerRank(transport.io_layer)
     /\ LayerRank(transport'.io_layer) = LayerRank(transport.io_layer)
          => transport'.io_layer = transport.io_layer]_vars

\* the slot has gone through the whole pipeline
ReachedPassthru ==
  /\ transport.io_layer = pni_passthru_layer
  /\ transport.hdr_in = 1
  /\ transport.hdr_out = 1

\* the client has taken the anonymous short-circuit
TookShortCircuit ==
  /\ transport.sasl.client
  /\ transport.sasl.included_mechanisms = StrPtr(ANONYMOUS)
  /\ transport.sasl.selected_mechanism = StrPtr(ANONYMOUS)
  /\ transport.sasl.outcome = PN_SASL_NONE
  /\ transport.sasl.desired_state = SASL_PRETEND_OUTCOME

\* C6: a MECHANISMS frame dispatched on a client that has taken the anonymous
\* short-circuit changes neither desired_state, last_state, outcome nor the
\* selected mechanism, before the drain to PRETEND_OUTCOME as well as after
MechanismsIgnoredAfterShortCircuit ==
  [][\A u \in MechanismsUnits : \A b \in InputChoices(Received(inbuf, u)) :
       (/\ op' = "read_done"
        /\ TookShortCircuit
        /\ Dispatched(Received(inbuf, u), {"SASL_MECHANISMS"})
        /\ ReadDone(u, b)) =>
         /\ transport'.sasl.desired_state = transport.sasl.desired_state
         /\ transport'.sasl.last_state = transport.sasl.last_state
         /\ transport'.sasl.outcome = transport.sasl.outcome
         /\ transport'.sasl.selected_mechanism = transport.sasl.selected_mechanism]_vars

\* what pn_sasl_allowed_mechs(mechs) leaves unchanged on a server and with a
\* value other than "ANONYMOUS"
AllowedMechsNoEffect ==
  /\ transport'.sasl.last_state = transport.sasl.last_state
  /\ transport'.sasl.desired_state = transport.sasl.desired_state
  /\ transport'.sasl.outcome = transport.sasl.outcome

\* C7 as stated: pn_sasl_allowed_mechs("ANONYMOUS") on a client whose backend
\* succeeds makes desired_state PRETEND_OUTCOME and posts no frame; where the
\* backend fails outcome becomes PERM and desired_state RECVED_OUTCOME; on a
\* server and with any other value last_state, desired_state and outcome are
\* unchanged
AllowedMechsAnonymous ==
  [][\A mechs \in AllowLists : \A b \in AllowChoices(mechs) :
       (op' = "pn_sasl_allowed_mechs" /\ AllowedMechs(mechs, b)) =>
         IF mechs = ANONYMOUS /\ transport.sasl.client
         THEN IF b.init_ok /\ b.proc_ok
              THEN /\ transport'.sasl.desired_state = SASL_PRETEND_OUTCOME
                   /\ transport'.posted = <<>>
              ELSE /\ transport'.sasl.outcome = PN_SASL_PERM
                   /\ transport'.sasl.desired_state = SASL_RECVED_OUTCOME
         ELSE AllowedMechsNoEffect]_vars

\* C7 amended: as stated, except that on a client whose last_state is already
\* RECVED_OUTCOME the successful call leaves desired_state as it was
AllowedMechsAnonymousUnlessOver ==
  [][\A mechs \in AllowLists : \A b \in AllowChoices(mechs) :
       (op' = "pn_sasl_allowed_mechs" /\ AllowedMechs(mechs, b)) =>
         IF mechs = ANONYMOUS /\ transport.sasl.client
         THEN IF b.init_ok /\ b.proc_ok
              THEN /\ transport'.sasl.desired_state =
                        IF transport.sasl.last_state = SASL_RECVED_OUTCOME
                        THEN transport.sasl.desired_state
                        ELSE SASL_PRETEND_OUTCOME
                   /\ transport'.posted = <<>>
              ELSE /\ transport'.sasl.outcome = PN_SASL_PERM
                   /\ transport'.sasl.desired_state = SASL_RECVED_OUTCOME
         ELSE AllowedMechsNoEffect]_vars

\* pn_sasl_allowed_mechs("ANONYMOUS") has succeeded on a client
ShortCircuitTaken ==
  /\ op = "pn_sasl_allowed_mechs"
  /\ TookShortCircuit
  /\ transport.events = 1

\* C8: an OUTCOME frame with code c dispatched on a client leaves outcome = c,
\* authenticated exactly when c = OK, and RECVED_OUTCOME requested; a call of
\* pn_sasl_output on a client that ends with last_state = RECVED_OUTCOME,
\* nothing pending or posted to write and an outcome other than OK closes
\* the tail
OutcomeHandled ==
  [][/\ \A u \in OutcomeUnits : \A b \in InputChoices(Received(inbuf, u)) :
          (/\ op' = "read_done"
           /\ transport.sasl.client
           /\ Dispatched(Received(inbuf, u), {"SASL_OUTCOME"})
           /\ ReadDone(u, b)) =>
            /\ transport'.sasl.outcome = u.code
            /\ transport'.authenticated = (u.code = PN_SASL_OK)
            /\ transport'.sasl.desired_state = SASL_RECVED_OUTCOME
     /\ \A size \in OutSizes : \A b \in OutputChoices :
          (/\ op' = "process_output"
           /\ transport.sasl.client
           /\ SaslOutputCalled
           /\ transport'.sasl.last_state = SASL_RECVED_OUTCOME
           /\ transport.available = 0
           /\ transport'.posted = <<>>
           /\ transport'.sasl.outcome # PN_SASL_OK
           /\ ProcessOutput(size, b)) =>
            transport'.tail_closed]_vars

\* a client that was refused has drained to RECVED_OUTCOME and closed the tail
RefusedAndClosed ==
  /\ op = "process_output"
  /\ transport.sasl.client
  /\ transport.sasl.outcome = PN_SASL_AUTH
  /\ ~transport.authenticated
  /\ transport.sasl.last_state = SASL_RECVED_OUTCOME
  /\ transport.tail_closed

\* C9 as stated: on a client outcome = OK implies that SASL_INIT has been
\* posted, last_state >= POSTED_INIT
OkImpliesInitPosted ==
  (transport.sasl.client /\ transport.sasl.outcome = PN_SASL_OK) =>
    transport.sasl.last_state >= SASL_POSTED_INIT

\* C9 amended: on a client a drain that takes last_state from NONE to
\* RECVED_OUTCOME with outcome = OK posts SASL_INIT, and nothing else
OkDrainPostsInit ==
  [][(/\ transport.sasl.client
      /\ transport.sasl.last_state < SASL_POSTED_INIT
      /\ transport'.sasl.last_state = SASL_RECVED_OUTCOME
      /\ transport'.sasl.outcome = PN_SASL_OK) =>
        transport'.posted = <<"SASL_INIT">>]_vars

\* a client has drained to RECVED_OUTCOME with outcome = OK in one call that
\* posted SASL_INIT
LateInitPosted ==
  /\ op = "process_output"
  /\ transport.sasl.client
  /\ transport.sasl.outcome = PN_SASL_OK
  /\ transport.sasl.last_state = SASL_RECVED_OUTCOME
  /\ transport.posted = <<"SASL_INIT">>

\* C10: POSTED_RESPONSE requested on a client whose last_state is
\* POSTED_RESPONSE rewinds last_state to POSTED_INIT, and the drain that
\* follows posts one SASL_RESPONSE and nothing else and leaves last_state =
\* POSTED_RESPONSE; the same on a server with POSTED_CHALLENGE, rewound to
\* POSTED_MECHANISMS
RepeatRounds ==
  [][/\ (/\ op' = "pni_sasl_set_desired_state"
         /\ transport.sasl.client
         /\ transport.sasl.last_state = SASL_POSTED_RESPONSE
         /\ SetDesiredState(SASL_POSTED_RESPONSE)) =>
          /\ transport'.sasl.last_state = SASL_POSTED_INIT
          /\ transport'.sasl.desired_state = SASL_POSTED_RESPONSE
     /\ (/\ op' = "pni_sasl_set_desired_state"
         /\ ~transport.sasl.client
         /\ transport.sasl.last_state = SASL_POSTED_CHALLENGE
         /\ SetDesiredState(SASL_POSTED_CHALLENGE)) =>
          /\ transport'.sasl.last_state = SASL_POSTED_MECHANISMS
          /\ transport'.sasl.desired_state = SASL_POSTED_CHALLENGE
     /\ \A size \in OutSizes : \A b \in OutputChoices :
          (/\ op' = "process_output"
           /\ SaslOutputCalled
           /\ transport.sasl.client
           /\ transport.sasl.last_state = SASL_POSTED_INIT
           /\ transport.sasl.desired_state = SASL_POSTED_RESPONSE
           /\ ProcessOutput(size, b)) =>
            /\ transport'.posted = <<"SASL_RESPONSE">>
            /\ transport'.sasl.last_state = SASL_POSTED_RESPONSE
     /\ \A size \in OutSizes : \A b \in OutputChoices :
          (/\ op' = "process_output"
           /\ SaslOutputCalled
           /\ ~transport.sasl.client
           /\ transport.sasl.last_state = SASL_POSTED_MECHANISMS
           /\ transport.sasl.desired_state = SASL_POSTED_CHALLENGE
           /\ ProcessOutput(size, b)) =>
            /\ transport'.posted = <<"SASL_CHALLENGE">>
            /\ transport'.sasl.last_state = SASL_POSTED_CHALLENGE]_vars

\* a RESPONSE had been posted and the client's last_state has been rewound
\* for another
RewoundForRepeat ==
  /\ op = "pni_sasl_set_desired_state"
  /\ transport.sasl.client
  /\ "SASL_RESPONSE" \in transport.ever
  /\ transport.sasl.last_state = SASL_POSTED_INIT
  /\ transport.sasl.desired_state = SASL_POSTED_RESPONSE
  /\ transport.events = 1

\* the slot's input processor is the header sniffer
SnifferCalled ==
  transport.io_layer \in {sasl_header_layer, sasl_read_header_layer}

\* the slot's input processor is pn_input_read_sasl
ReadSaslCalled ==
  transport.io_layer \in {sasl_write_header_layer, sasl_layer}

\* the input processor called with bytes must report a framing error: the
\* sniffer on a header that is neither the SASL header nor an incomplete one
\* with more to come, pn_input_read_sasl at EOS
MustFail(bytes) ==
  \/ /\ SnifferCalled
     /\ pni_sniff_header(bytes) # "PNI_PROTOCOL_AMQP_SASL"
     /\ ~(pni_sniff_header(bytes) = "PNI_PROTOCOL_INSUFFICIENT" /\ ~transport.tail_closed)
  \/ ReadSaslCalled /\ transport.tail_closed

FramingErrorReported(r) ==
  /\ r.n = PN_EOS
  /\ r.t.close_sent
  /\ r.t.condition = "amqp:connection:framing-error"

\* C11: the header sniffer on input that is neither the SASL header nor an
\* incomplete header with the transport not at EOS, and pn_input_read_sasl
\* with the transport at EOS, set close_sent, set the condition
\* amqp:connection:framing-error (none being set before) and return EOS;
\* close_sent is never set without a condition
FramingErrors ==
  [][/\ \A u \in PeerUnits : \A b \in InputChoices(Received(inbuf, u)) :
          (/\ op' = "read_done"
           /\ MustFail(Received(inbuf, u))
           /\ ReadDone(u, b)) =>
            /\ FramingErrorReported(process_input(T0, Received(inbuf, u), b))
            /\ transport'.close_sent
            /\ transport'.condition = "amqp:connection:framing-error"
     /\ \A b \in InputChoices(inbuf) :
          (/\ op' = "process_input"
           /\ MustFail(inbuf)
           /\ ProcessInput(b)) =>
            /\ FramingErrorReported(process_input(T0, inbuf, b))
            /\ transport'.close_sent
            /\ transport'.condition = "amqp:connection:framing-error"
     /\ transport'.close_sent => transport'.condition # Unset]_vars

\* the sniffer has met the end of the input before a whole header
SnifferFailedAtEos ==
  /\ op = "process_input"
  /\ transport.hdr_in = 0
  /\ transport.tail_closed
  /\ transport.close_sent
  /\ transport.condition = "amqp:connection:framing-error"
  /\ transport.io_layer = pni_error_layer

FirstHalf == [type |-> "HA"]

SecondHalf == [type |-> "HB"]

\* C12: the sniffer given the first half of the SASL header, the transport
\* not at EOS, consumes nothing and leaves the slot, close_sent and the
\* condition as they were; given the whole header once the second half has
\* arrived, it consumes 8 bytes and rewires the slot
PartialHeader ==
  [][/\ \A b \in InputChoices(<<FirstHalf>>) :
          (/\ op' = "read_done"
           /\ SnifferCalled
           /\ inbuf = <<>>
           /\ ReadDone(FirstHalf, b)) =>
            /\ process_input(T0, <<FirstHalf>>, b).n = 0
            /\ inbuf' = <<FirstHalf>>
            /\ transport'.io_layer = transport.io_layer
            /\ transport'.close_sent = transport.close_sent
            /\ transport'.condition = transport.condition
     /\ \A b \in InputChoices(Received(inbuf, SecondHalf)) :
          (/\ op' = "read_done"
           /\ SnifferCalled
           /\ inbuf = <<FirstHalf>>
           /\ ReadDone(SecondHalf, b)) =>
            /\ process_input(T0, Received(inbuf, SecondHalf), b).n = SASL_HEADER_LEN
            /\ inbuf' = <<>>
            /\ transport'.io_layer = IF transport.io_layer = sasl_read_header_layer
                                     THEN sasl_layer
                                     ELSE sasl_write_header_layer
            /\ ~transport'.close_sent
            /\ transport'.condition = Unset]_vars

\* half a header is waiting in the read buffer of a transport that has
\* written its own header
HalfHeaderWaiting ==
  /\ op = "read_done"
  /\ inbuf = <<FirstHalf>>
  /\ transport.io_layer = sasl_read_header_layer
  /\ transport.condition = Unset

\* C13 as stated: every call of pni_sasl_set_desired_state puts a TRANSPORT
\* event, a rejected call too
EveryCallEmits ==
  [][\A s \in States :
       (op' = "pni_sasl_set_desired_state" /\ SetDesiredState(s)) =>
         transport'.events >= 1]_vars

\* C13 amended: a call of pni_sasl_set_desired_state puts one TRANSPORT event
\* when it is accepted, also when it changes nothing, and none when it is
\* rejected as a downgrade or a role violation
AcceptedCallsEmit ==
  [][\A s \in States :
       (op' = "pni_sasl_set_desired_state" /\ SetDesiredState(s)) =>
         transport'.events = IF Rejected(s) THEN 0 ELSE 1]_vars

\* a request for the state the context is already in has been accepted: it
\* changed nothing and put an event
AcceptedWithoutChange ==
  /\ op = "pni_sasl_set_desired_state"
  /\ transport.events = 1
  /\ transport.sasl.last_state = transport.sasl.desired_state
  /\ transport.sasl.last_state = SASL_POSTED_MECHANISMS

\* C14: disconnected(err) sets the transport condition to err only when none
\* is set, and closes both halves; called right after another disconnected
\* it leaves the condition and the closed state of both halves as the first
\* call left them
DisconnectedFirstConditionWins ==
  [][\A err \in ErrorConditions :
       (op' = "disconnected" /\ Disconnected(err)) =>
         /\ transport'.condition = IF transport.condition = Unset
                                   THEN err
                                   ELSE transport.condition
         /\ transport'.head_closed
         /\ transport'.tail_closed
         /\ op = "disconnected" =>
              /\ transport'.condition = transport.condition
              /\ transport'.head_closed = transport.head_closed
              /\ transport'.tail_closed = transport.tail_closed]_vars

\* disconnected has been called on a transport whose condition was the
\* framing error, and the framing error is still the condition
DisconnectedAfterFramingError ==
  /\ op = "disconnected"
  /\ transport.head_closed
  /\ transport.condition = "amqp:connection:framing-error"

\* the events in the collector when dispatch is called, and whether the
\* handler throws for one of them
HandlerThrows(outcomes) ==
  driver.handler /\ \E i \in DOMAIN outcomes : outcomes[i] # "returns"

\* C15 as stated: no exception thrown by the handler leaves dispatch; the
\* condition becomes "exception" if none was set and is otherwise left, all
\* queued events are taken in order, and dispatch returns whether the driver
\* is still live
HandlerExceptionsCaught ==
  [][\A outcomes \in [1..Len(driver.collector) -> HandlerOutcomes] :
       (op' = "dispatch" /\ Dispatch(outcomes)) =>
         /\ ~driver'.escaped
         /\ driver'.dispatched = driver.collector
         /\ driver'.collector = <<>>
         /\ transport'.condition =
              IF transport.condition = Unset /\ HandlerThrows(outcomes)
              THEN "exception"
              ELSE transport.condition
         /\ driver'.live = ~(transport.head_closed /\ transport.tail_closed)]_vars

\* the tokens of a list: the pieces between its spaces, in order
RECURSIVE Tokens(_)
Tokens(list) ==
  LET sp == strchr_space(list, 1)
  IN IF sp = 0 THEN <<list>>
     ELSE <<SubSeq(list, 1, sp - 1)>> \o Tokens(SubSeq(list, sp + 1, Len(list)))

\* some token of the list equals s when case is ignored, or there is no list
TokenEquals(included_mech_list, s) ==
  \/ included_mech_list = NULL
  \/ \E i \in DOMAIN Tokens(included_mech_list[1]) :
       Lower(Tokens(included_mech_list[1])[i]) = Lower(s)

\* the symbols of a sequence with one space between neighbours
RECURSIVE Joined(_)
Joined(symbols) ==
  IF symbols = <<>> THEN <<>>
  ELSE IF Len(symbols) = 1 THEN Head(symbols)
  ELSE Head(symbols) \o <<" ">> \o Joined(Tail(symbols))

Passing(included_mech_list, symbols) ==
  SelectSeq(symbols, LAMBDA s : TokenEquals(included_mech_list, s))

\* C16 as stated: pni_included_mech(list, s) is true exactly when there is
\* no list or a space-delimited token of the list equals s when case is
\* ignored, and the client that has read a MECHANISMS frame has offered the
\* backend the advertised symbols that pass, in order, with single spaces
\* between them
IncludedIffTokenEquals ==
  /\ \A s \in MechSymbols :
       pni_included_mech(transport.sasl.included_mechanisms, s)
         <=> TokenEquals(transport.sasl.included_mechanisms, s)
  /\ transport.offered # NULL =>
       transport.offered[1] =
         Joined(Passing(transport.sasl.included_mechanisms, transport.advertised[1]))

\* the frame a server posts on reaching a state
ServerFrame(state) ==
  CASE state = SASL_POSTED_MECHANISMS -> "SASL_MECHANISMS"
    [] state = SASL_POSTED_CHALLENGE -> "SASL_CHALLENGE"
    [] state = SASL_POSTED_OUTCOME -> "SASL_OUTCOME"

\* C17: a server has posted no SASL_CHALLENGE and no SASL_OUTCOME unless it
\* has posted SASL_MECHANISMS, within one call too; a drain that takes
\* last_state from below POSTED_MECHANISMS to POSTED_CHALLENGE or
\* POSTED_OUTCOME posts SASL_MECHANISMS and then the frame of that state
MechanismsPostedFirst ==
  /\ [](~transport.sasl.client =>
         (transport.ever \cap {"SASL_CHALLENGE", "SASL_OUTCOME"} # {} =>
            "SASL_MECHANISMS" \in transport.ever))
  /\ [][~transport.sasl.client =>
          \A i \in DOMAIN transport'.posted :
            transport'.posted[i] \in {"SASL_CHALLENGE", "SASL_OUTCOME"} =>
              \/ "SASL_MECHANISMS" \in transport.ever
              \/ \E j \in 1..(i - 1) : transport'.posted[j] = "SASL_MECHANISMS"]_vars
  /\ [][(/\ ~transport.sasl.client
          /\ transport.sasl.last_state < SASL_POSTED_MECHANISMS
          /\ transport'.sasl.last_state
               \in {SASL_POSTED_CHALLENGE, SASL_POSTED_OUTCOME}) =>
            transport'.posted =
              <<"SASL_MECHANISMS", ServerFrame(transport'.sasl.last_state)>>]_vars

\* a server asked for a challenge before it had advertised its mechanisms
\* has posted both frames in one drain
MechanismsThenChallenge ==
  /\ op = "process_output"
  /\ ~transport.sasl.client
  /\ transport.posted = <<"SASL_MECHANISMS", "SASL_CHALLENGE">>
  /\ transport.sasl.last_state = SASL_POSTED_CHALLENGE

\* C18 as stated: on a client last_state becomes PRETEND_OUTCOME, or
\* RECVED_OUTCOME with outcome = OK, only when a SASL_INIT frame has been
\* posted by then; from below POSTED_INIT it becomes RECVED_OUTCOME with
\* another outcome without a SASL_INIT frame posted
InitPostedBeforeFinal ==
  [][transport.sasl.client =>
       /\ (/\ transport'.sasl.last_state = SASL_PRETEND_OUTCOME
           /\ transport.sasl.last_state # SASL_PRETEND_OUTCOME) =>
            "SASL_INIT" \in transport'.ever
       /\ (/\ transport'.sasl.last_state = SASL_RECVED_OUTCOME
           /\ transport.sasl.last_state # SASL_RECVED_OUTCOME
           /\ transport'.sasl.outcome = PN_SASL_OK) =>
            "SASL_INIT" \in transport'.ever
       /\ (/\ transport'.sasl.last_state = SASL_RECVED_OUTCOME
           /\ transport.sasl.last_state < SASL_POSTED_INIT
           /\ transport'.sasl.outcome # PN_SASL_OK) =>
            transport'.posted = <<>>]_vars

\* C18 amended: on a client whose last_state is below POSTED_INIT, the drain
\* that takes last_state to PRETEND_OUTCOME, or to RECVED_OUTCOME with
\* outcome = OK, posts SASL_INIT in that call and nothing else, and the
\* drain that takes it to RECVED_OUTCOME with another outcome posts nothing
InitPostedByDrainFromNone ==
  [][(transport.sasl.client /\ transport.sasl.last_state < SASL_POSTED_INIT) =>
       /\ transport'.sasl.last_state = SASL_PRETEND_OUTCOME =>
            transport'.posted = <<"SASL_INIT">>
       /\ (/\ transport'.sasl.last_state = SASL_RECVED_OUTCOME
           /\ transport'.sasl.outcome = PN_SASL_OK) =>
            transport'.posted = <<"SASL_INIT">>
       /\ (/\ transport'.sasl.last_state = SASL_RECVED_OUTCOME
           /\ transport'.sasl.outcome # PN_SASL_OK) =>
            transport'.posted = <<>>]_vars

\* a client that never posted SASL_INIT has drained to RECVED_OUTCOME with
\* an outcome other than OK, posting nothing
RefusedWithoutInit ==
  /\ op = "process_output"
  /\ transport.sasl.client
  /\ transport.sasl.last_state = SASL_RECVED_OUTCOME
  /\ transport.sasl.outcome # PN_SASL_OK
  /\ transport.ever = {}
  /\ transport.posted = <<>>

\* the drain left t with last_state = desired_state and at most two frames
\* posted, the last of them the frame of the state reached
Drained(t) ==
  /\ t.sasl.last_state = t.sasl.desired_state
  /\ Len(t.posted) <= 2
  /\ Len(t.posted) = 2 =>
       /\ t.posted[1] = "SASL_MECHANISMS"
       /\ t.posted[2] = ServerFrame(t.sasl.last_state)

\* C19: started in any reachable state the drain ends after at most three
\* rounds of its switch with last_state = desired_state and at most two
\* frames posted, a prerequisite first and then the frame of the state asked
\* for; and so does every call of pn_sasl_output leave the context
DrainTerminates ==
  /\ [](/\ post_rounds(T0, transport.sasl.desired_state) <= 3
         /\ Drained(pni_post_sasl_frame(T0)))
  /\ [][(op' = "process_output" /\ SaslOutputCalled) => Drained(transport')]_vars

\* a server asked for the outcome before it had advertised its mechanisms
\* has posted both frames in one drain
MechanismsThenOutcome ==
  /\ op = "process_output"
  /\ ~transport.sasl.client
  /\ transport.posted = <<"SASL_MECHANISMS", "SASL_OUTCOME">>
  /\ transport.sasl.last_state = SASL_POSTED_OUTCOME
  /\ transport.sasl.desired_state = SASL_POSTED_OUTCOME

\* C20: a call of pn_sasl_output that reports EOS, seen by the output side
\* going into bypass, found last_state a terminal output state and no
\* frame pending, none posted earlier and none by the call itself; a call
\* that closes the tail found the same with an outcome other than OK, and
\* on a server the SASL_OUTCOME frame has been posted and written out
OutputEosAfterFlush ==
  [][(op' = "process_output" /\ SaslOutputCalled) =>
       /\ transport'.sasl.output_bypass =>
            /\ pni_sasl_is_final_output_state(transport'.sasl)
            /\ transport.available = 0
            /\ transport'.posted = <<>>
       /\ (transport'.tail_closed /\ ~transport.tail_closed) =>
            /\ transport'.sasl.output_bypass
            /\ transport'.sasl.outcome # PN_SASL_OK
            /\ transport'.available = 0
            /\ ~transport.sasl.client =>
                 /\ transport'.sasl.last_state = SASL_POSTED_OUTCOME
                 /\ "SASL_OUTCOME" \in transport.ever]_vars

\* a server that refused the client has written its SASL_OUTCOME frame out
\* and then closed the tail
ServerRefusedAndClosed ==
  /\ op = "process_output"
  /\ ~transport.sasl.client
  /\ transport.sasl.outcome = PN_SASL_AUTH
  /\ transport.sasl.last_state = SASL_POSTED_OUTCOME
  /\ "SASL_OUTCOME" \in transport.ever
  /\ transport.posted = <<>>
  /\ transport.available = 0
  /\ transport.sasl.output_bypass
  /\ transport.tail_closed

BothBypassed(t) == t.sasl.input_bypass /\ t.sasl.output_bypass

WholeHeader == <<[type |-> "H"]>>

\* the peer's header is read and then the local header written, and the
\* other way round
ReadThenWritten(t) ==
  pn_output_write_sasl_header(pn_input_read_sasl_header(t, WholeHeader).t).t

WrittenThenRead(t) ==
  pn_input_read_sasl_header(pn_output_write_sasl_header(t).t, WholeHeader).t

\* C22: the slot tells which headers have gone by: none in
\* sasl_header_layer, the peer's alone in sasl_write_header_layer, the local
\* one alone in sasl_read_header_layer, both in sasl_layer and after it, and
\* neither goes by twice; from sasl_header_layer reading first and writing
\* first lead through these layers to the same transport in sasl_layer
HeaderExchange ==
  /\ [](/\ transport.hdr_in <= 1
        /\ transport.hdr_out <= 1
        /\ transport.io_layer = sasl_header_layer =>
             transport.hdr_in = 0 /\ transport.hdr_out = 0
        /\ transport.io_layer = sasl_write_header_layer =>
             transport.hdr_in = 1 /\ transport.hdr_out = 0
        /\ transport.io_layer = sasl_read_header_layer =>
             transport.hdr_in = 0 /\ transport.hdr_out = 1
        /\ transport.io_layer \in {sasl_layer, pni_passthru_layer} =>
             transport.hdr_in = 1 /\ transport.hdr_out = 1
        /\ transport.io_layer = sasl_header_layer =>
             /\ pn_input_read_sasl_header(T0, WholeHeader).t.io_layer
                  = sasl_write_header_layer
             /\ pn_output_write_sasl_header(T0).t.io_layer = sasl_read_header_layer
             /\ ReadThenWritten(T0).io_layer = sasl_layer
             /\ ReadThenWritten(T0) = WrittenThenRead(T0))
  /\ [][/\ transport'.hdr_in > transport.hdr_in =>
             /\ op' \in {"read_done", "process_input"}
             /\ transport'.io_layer = IF transport.hdr_out = 1
                                      THEN sasl_layer
                                      ELSE sasl_write_header_layer
        /\ transport'.hdr_out > transport.hdr_out =>
             /\ op' = "process_output"
             /\ transport'.io_layer = IF transport.hdr_in = 1
                                      THEN sasl_layer
                                      ELSE sasl_read_header_layer]_vars

\* the local header was written first and the peer's header read after it
HeaderReadLast ==
  /\ op = "read_done"
  /\ transport.io_layer = sasl_layer
  /\ transport.hdr_in = 1
  /\ transport.hdr_out = 1
  /\ transport.sasl.last_state = SASL_NONE
  /\ inbuf = <<>>

(***************************************************************************)
(* The SASL_MECHANISMS frame of the server.  The advertisement list of the *)
(* backend is split into the local array char *mechs[16] and the array is  *)
(* handed to pn_post_frame with the number of tokens stored.               *)
(***************************************************************************)
\* the length of the local array mechs of the SASL_POSTED_MECHANISMS case
MechsLen == 16
\* most tokens of an advertisement list of the backend
MaxTokens == 17

\* the body of the two tests of pni_split_mechs: the token between the
\* cursors is stored at mechs[*count] when it is not empty and is included;
\* stored holds the tokens written to mechs[0], mechs[1], ... so far
split_store(mechlist, included_mechs, start, end, stored) ==
  IF start # end
     /\ pni_included_mech(included_mechs, SubSeq(mechlist, start, end - 1))
  THEN Append(stored, SubSeq(mechlist, start, end - 1))
  ELSE stored

\* the iterations of the loop of pni_split_mechs that take its else branch:
\* end moves to the next ' ' of mechlist, or to its terminator
split_scan(mechlist, end) ==
  LET sp == strchr_space(mechlist, end)
  IN IF sp = 0 THEN Len(mechlist) + 1 ELSE sp

\* the loop of pni_split_mechs from one ' ' to the next and the test after
\* it; start is a 1-based cursor into mechlist, end the cursor after the
\* scan, and Len(stored) is the value of *count
RECURSIVE split_from(_, _, _, _, _)
split_from(mechlist, included_mechs, start, end, stored) ==
  IF end > Len(mechlist)
  THEN split_store(mechlist, included_mechs, start, end, stored)
  ELSE split_from(mechlist, included_mechs, end + 1,
                  split_scan(mechlist, end + 1),
                  split_store(mechlist, included_mechs, start, end, stored))

\* count is what the stores leave in *count, mechs the array, past the
\* stores mechs[16], mechs[17], ... that fall outside the array
pni_split_mechs(mechlist, included_mechs) ==
  LET stored == split_from(mechlist, included_mechs, 1,
                          split_scan(mechlist, 1), <<>>)
      inside == IF Len(stored) < MechsLen THEN Len(stored) ELSE MechsLen
  IN [count |-> Len(stored),
      mechs |-> SubSeq(stored, 1, inside),
      past |-> SubSeq(stored, inside + 1, Len(stored))]

\* a store outside the array is undefined: the build either carries on with
\* the stack overwritten or stops the process
Overrun == {"continues", "aborts"}
Aborted == [posted |-> FALSE, aborted |-> TRUE]

\* case SASL_POSTED_MECHANISMS of pni_post_sasl_frame: what pn_post_frame is
\* handed; list is the result of pni_sasl_impl_list_mechs
mechanisms_case(list, included_mechs, outcome) ==
  LET split == IF list.n > 0
               THEN pni_split_mechs(list.mechlist, included_mechs)
               ELSE [count |-> 0, mechs |-> <<>>, past |-> <<>>]
  IN IF split.past # <<>> /\ outcome = "aborts" THEN Aborted
     ELSE [posted |-> TRUE, count |-> split.count, mechs |-> split.mechs,
           past |-> split.past]

\* n tokens separated by sep, the first k of them PLAIN and the rest GSSAPI
RECURSIVE tokens_from(_, _, _, _)
tokens_from(i, n, k, sep) ==
  IF i > n THEN <<>>
  ELSE (IF i <= k THEN PLAIN ELSE GSSAPI)
       \o (IF i < n THEN sep ELSE <<>>) \o tokens_from(i + 1, n, k, sep)

\* pni_sasl_impl_list_mechs: the number of mechanisms of the backend and
\* its space-separated advertisement list
ListMechs ==
  {[n |-> n, mechlist |-> tokens_from(1, n, k, sep)] :
     n \in 0..MaxTokens, k \in {0, 1, MechsLen, MaxTokens},
     sep \in {<<" ">>, <<" ", " ">>}}

Running == encoder # Aborted

\* the call of process_output whose drain posts SASL_MECHANISMS
PostMechanisms(list, size, b, outcome) ==
  /\ Running
  /\ ProcessOutput(size, b)
  /\ "SASL_MECHANISMS" \in {transport'.posted[i] : i \in 1..Len(transport'.posted)}
  /\ encoder' = mechanisms_case(list, transport.sasl.included_mechanisms, outcome)
  /\ encoder' # Aborted

\* the same call when the store outside the array stops the process
PostMechanismsAborts(list, size, b) ==
  /\ Running
  /\ ProcessOutput(size, b)
  /\ "SASL_MECHANISMS" \in {transport'.posted[i] : i \in 1..Len(transport'.posted)}
  /\ mechanisms_case(list, transport.sasl.included_mechanisms, "aborts") = Aborted
  /\ encoder' = Aborted

\* a call of process_output that posts no SASL_MECHANISMS
OtherOutput(size, b) ==
  /\ Running
  /\ ProcessOutput(size, b)
  /\ "SASL_MECHANISMS" \notin {transport'.posted[i] : i \in 1..Len(transport'.posted)}
  /\ UNCHANGED encoder

EncoderInit ==
  /\ transport = pn_sasl(TRUE)
  /\ inbuf = <<>>
  /\ op = "pn_sasl"
  /\ driver = connection_driver(TRUE)
  /\ encoder = NoFrame

EncoderNext ==
  \/ \E mechs \in {PLAIN, GSSAPI} : \E b \in AllowChoices(mechs) :
       Running /\ AllowedMechs(mechs, b) /\ UNCHANGED <<driver, encoder>>
  \/ \E list \in ListMechs, size \in OutSizes, b \in OutputChoices :
       PostMechanisms(list, size, b, "continues") /\ UNCHANGED driver
  \/ \E list \in ListMechs, size \in OutSizes, b \in OutputChoices :
       PostMechanismsAborts(list, size, b) /\ UNCHANGED driver
  \/ \E size \in OutSizes, b \in OutputChoices :
       OtherOutput(size, b) /\ UNCHANGED driver

EncoderSpec == EncoderInit /\ [][EncoderNext]_vars

\* C23: the number of entries the server hands to the frame encoder with
\* SASL_MECHANISMS never exceeds the 16 entries of the array
MechanismsWithinArray ==
  encoder.posted => encoder.count <= MechsLen

\* the frame is posted for a list with more passing tokens than the array holds
MechanismsPastArray ==
  /\ encoder.posted
  /\ encoder.count > MechsLen
  /\ encoder.past # <<>>

(***************************************************************************)
(* The anonymous client: a client on which pn_sasl_allowed_mechs was       *)
(* called with "ANONYMOUS" and took the short-circuit, driven by a host    *)
(* that calls the input and the output processor in turn for ever, with a  *)
(* server that sends its header, its mechanisms, one outcome and then the  *)
(* bytes of the AMQP layer.                                                *)
(***************************************************************************)
AnonUnits ==
  {[type |-> "H"], [type |-> "HA"], [type |-> "HB"], [type |-> "AMQP"],
   [type |-> "SASL_MECHANISMS", mechs |-> <<ANONYMOUS, PLAIN>>]}
  \cup {[type |-> "SASL_OUTCOME", code |-> c] : c \in Outcomes}

\* the outcome has been sent: it is in the read buffer or has been handled
OutcomeSent ==
  \/ transport.sasl.outcome # PN_SASL_NONE
  \/ \E i \in 1..Len(inbuf) : inbuf[i].type = "SASL_OUTCOME"

\* the order in which the server sends
AnonMaySend(u) ==
  /\ (inbuf # <<>> /\ inbuf[Len(inbuf)].type = "HA") => u.type = "HB"
  /\ u.type \in {"SASL_MECHANISMS", "SASL_OUTCOME"} =>
       transport.hdr_in = 1 /\ ~OutcomeSent
  /\ u.type = "AMQP" => OutcomeSent

AnonInit ==
  /\ \E b \in Choices(TRUE, TRUE, FALSE) :
       /\ b.pick = 1
       /\ transport = pn_sasl_allowed_mechs(pn_sasl(FALSE), ANONYMOUS, b)
  /\ transport.sasl.desired_state = SASL_PRETEND_OUTCOME
  /\ inbuf = <<>>
  /\ op = "pn_sasl_allowed_mechs"
  /\ driver = connection_driver(TRUE)
  /\ encoder = NoFrame

AnonRead ==
  \E u \in AnonUnits : \E b \in InputChoices(Received(inbuf, u)) :
    AnonMaySend(u) /\ ReadDone(u, b) /\ UNCHANGED <<driver, encoder>>

AnonInput ==
  \E b \in InputChoices(inbuf) : ProcessInput(b) /\ UNCHANGED <<driver, encoder>>

AnonOutput ==
  \E size \in OutSizes, b \in OutputChoices :
    ProcessOutput(size, b) /\ UNCHANGED <<driver, encoder>>

AnonNext ==
  \/ AnonRead
  \/ AnonInput
  \/ AnonOutput

\* the host keeps calling both processors
AnonSpec ==
  /\ AnonInit
  /\ [][AnonNext]_vars
  /\ WF_vars(AnonInput)
  /\ WF_vars(AnonOutput)

\* the local header and SASL_INIT have been written; the peer's header and
\* an outcome OK have been received
AnonExchanged ==
  /\ transport.hdr_out = 1
  /\ "SASL_INIT" \in transport.ever
  /\ transport.available = 0
  /\ transport.hdr_in = 1
  /\ transport.sasl.outcome = PN_SASL_OK

\* C24: once the anonymous client has written its header and SASL_INIT and
\* has received the peer's header and an outcome OK, both bypass flags are
\* eventually set and the slot eventually holds the passthru layer
AnonymousReachesPassthru ==
  AnonExchanged ~>
    (BothBypassed(transport) /\ transport.io_layer = pni_passthru_layer)

\* the exchange is complete, the output side has bypassed and the drain
\* never ran after the outcome came in
AnonStuck ==
  /\ AnonExchanged
  /\ transport.io_layer = sasl_layer
  /\ transport.sasl.output_bypass
  /\ ~transport.sasl.input_bypass
  /\ transport.sasl.last_state = SASL_PRETEND_OUTCOME
  /\ transport.sasl.desired_state = SASL_RECVED_OUTCOME
====
